---- MODULE Spec2Model ----
(***************************************************************************)
(* Model of the weather / location tool pipeline of weather_mcp.           *)
(*                                                                         *)
(* The repository holds the same tool surface three times:                 *)
(*   "svc"      src/src/services/*.py   (WeatherService, LocationService)  *)
(*   "server"   src/server.py                                              *)
(*   "weather1" src/weather.py, first set of tool functions  (l. 97-555)   *)
(*   "weather2" src/weather.py, second set of tool functions (l. 559-686)  *)
(* One invocation of a tool is modelled at a time: Invoke runs the tool up *)
(* to its first outbound GET (or to its return), GeoRespond / WxRespond    *)
(* deliver the outcome of the pending GET and run the tool on to the next  *)
(* GET or to its return, Return hands the text back and frees the tool     *)
(* loop for the next invocation.  ReverseGeocode / SearchRespond run the   *)
(* reverse_geocode_coordinates helper the same way.  SpecConc runs several *)
(* invocations at once, interleaved at their outbound GETs.                *)
(*                                                                         *)
(* Python values are modelled as strings: None is Null, an absent dict key *)
(* is Missing, numbers are their decimal text.  A text result is the       *)
(* sequence of its fragments (literals and rendered values) in order.      *)
(* Emoji of the templates are written as ASCII names in parentheses.       *)
(***************************************************************************)
EXTENDS Integers, Sequences, FiniteSets, TLC

VARIABLES
    envKey,     \* WEATHERAPI_KEY of the process environment (Null = unset)
    pc,         \* "idle" | "geo_wait" | "wx_wait" | "done" | "raised"
    impl,       \* implementation the running tool belongs to
    op,         \* tool being run
    args,       \* arguments of the invocation
    loc,        \* location record the resolver returned to the tool
    query,      \* weather query the tool built
    geoCalls,   \* outbound GETs to the geolocation provider, this invocation
    wxCalls,    \* outbound GETs to the weather provider, this invocation
    wxReq,      \* last outbound weather request
    geoReq,     \* last outbound geolocation request
    gw,         \* last completed GET: outcome and what the gateway returned
    result      \* text returned by the tool (<<>> while none)

vars == <<envKey, pc, impl, op, args, loc, query, geoCalls, wxCalls, wxReq,
          geoReq, gw, result>>

----------------------------------------------------------------------------
(* Bounds of the model *)

\* largest forecast length a caller asks for
MaxDays == 5
\* magnitude of the most negative forecast length a caller asks for
NegDays == 1
\* largest number of forecast days in a provider response
MaxReturned == 3
\* number of tool invocations in flight at once
MaxTasks == 2

Days == (0 - NegDays)..MaxDays

----------------------------------------------------------------------------
(* Python values *)

Null == "None"
Missing == "<missing>"

\* bool(v) of a str / None / number value
Truthy(v) == v \notin {Null, "", "0", "0.0"}

\* dict.get(key, default) on the value stored under key
Get(v, default) == IF v = Missing THEN default ELSE v

\* dict.get(key)
Get0(v) == Get(v, Null)

\* str(n) of a small integer, as an f-string renders it
IntStr(n) ==
    CASE n = 0 -> "0" [] n = 1 -> "1" [] n = 2 -> "2" [] n = 3 -> "3"
      [] n = 4 -> "4" [] n = 5 -> "5" [] n = 6 -> "6" [] n = 7 -> "7"
      [] n = 8 -> "8" [] n = 9 -> "9"
      [] n = -1 -> "-1" [] n = -2 -> "-2" [] n = -3 -> "-3" [] n = -4 -> "-4"

Min(a, b) == IF a < b THEN a ELSE b
Max(a, b) == IF a > b THEN a ELSE b

----------------------------------------------------------------------------
(* Configuration *)

DefaultKey == "c1e8d2b4514b4baf9c4184055251007"
PlaceholderKey == "your_weather_api_key_here"
ValidKey == "k-live"

EnvKeys == {Null, "", PlaceholderKey, ValidKey}

\* Config.weatherapi_key: os.getenv("WEATHERAPI_KEY")
weatherapi_key == envKey

\* WEATHERAPI_KEY = os.getenv("WEATHERAPI_KEY", "<hard-coded key>")
WEATHERAPI_KEY == IF envKey = Null THEN DefaultKey ELSE envKey

ConfigErrorMsg == "Error: WEATHERAPI_KEY environment variable is not set. Please get an API key from weatherapi.com and add it to your .env file."
ConfigErrorMsg2 == "Error: WEATHERAPI_KEY is not configured. Please set your WeatherAPI key."

\* validators.validate_api_key / server.validate_api_key: error text or Null
validate_api_key(api_key) == IF ~Truthy(api_key) THEN ConfigErrorMsg ELSE Null

\* the inline test of weather.py's second tool set
KeyRejected2(api_key) == ~Truthy(api_key) \/ api_key = PlaceholderKey

\* validators.limit_forecast_days
limit_forecast_days(days) == Min(Max(days, 1), 3)

\* `days or 3` of fetch_weather_data
DaysOr3(days) == IF days = 0 THEN 3 ELSE days

----------------------------------------------------------------------------
(* Upstream responses *)

\* how an outbound GET can end without a decoded body
Failures == {"connect_error", "timeout", "http_error", "bad_json"}

\* the geolocation provider's decoded bodies.  top is the JSON type of the
\* body: "dict", a non-empty "list", JSON "null", or the "empty" dict {}.
GeoBase ==
    [top |-> "dict", status |-> "success", message |-> Missing,
     city |-> "London", regionName |-> "England", country |-> "UK",
     lat |-> "51.5", lon |-> "-0.12", timezone |-> "Europe/London"]

GeoBodies ==
    {[GeoBase EXCEPT !.top = t, !.status = Missing, !.city = Missing,
                     !.regionName = Missing, !.country = Missing,
                     !.lat = Missing, !.lon = Missing, !.timezone = Missing] :
        t \in {"list", "null", "empty"}}
    \cup {[GeoBase EXCEPT !.status = "fail", !.message = m, !.city = Missing,
                          !.regionName = Missing, !.country = Missing,
                          !.lat = Missing, !.lon = Missing,
                          !.timezone = Missing] :
            m \in {Missing, "invalid query"}}
    \cup {[GeoBase EXCEPT !.city = c, !.lat = la, !.lon = lo] :
            c \in {Missing, Null, "", "London"},
            la \in {Missing, Null, "0", "51.5"},
            lo \in {Null, "-0.12"}}
    \cup {[GeoBase EXCEPT !.status = s, !.lat = la] :
            s \in {Missing, "pending"}, la \in {Missing, "51.5"}}

\* one forecast day of the weather provider: a full entry, an empty dict,
\* or JSON null
FullDay ==
    [t |-> "dict", date |-> "2025-07-10", day |-> "dict",
     condition |-> "dict", text |-> "Sunny", maxtemp_c |-> "24.1",
     mintemp_c |-> "13.2", avgtemp_c |-> "18.4", avghumidity |-> "61",
     maxwind_kph |-> "15.5", daily_chance_of_rain |-> "0", uv |-> "6.0"]

EmptyDay ==
    [t |-> "dict", date |-> Missing, day |-> Missing,
     condition |-> Missing, text |-> Missing, maxtemp_c |-> Missing,
     mintemp_c |-> Missing, avgtemp_c |-> Missing, avghumidity |-> Missing,
     maxwind_kph |-> Missing, daily_chance_of_rain |-> Missing,
     uv |-> Missing]

NullDay == [EmptyDay EXCEPT !.t = Null]
NullDayData == [FullDay EXCEPT !.day = Null]

DayLists ==
    {[i \in 1..n |-> FullDay] : n \in 0..MaxReturned}
    \cup {<<EmptyDay>>, <<NullDay>>, <<FullDay, NullDayData>>}

\* the weather provider's decoded bodies.  location / current / condition /
\* forecast / forecastday / error hold the JSON type found under that key
\* ("dict", "list", "str", Null) or Missing.
WxBase ==
    [top |-> "dict", error |-> Missing, errmsg |-> Missing,
     location |-> "dict", name |-> "London", region |-> "City of London",
     country |-> "UK", localtime |-> "2025-07-10 12:00",
     current |-> "dict", condition |-> "dict", text |-> "Partly cloudy",
     temp_c |-> "21.0", feelslike_c |-> "21.0", humidity |-> "56",
     pressure_mb |-> "1016.0", wind_kph |-> "11.2", wind_dir |-> "WSW",
     uv |-> "5.0", vis_km |-> "10.0", last_updated |-> "2025-07-10 11:45",
     forecast |-> Missing, forecastday |-> Missing, days |-> <<>>]

WxNoBlocks ==
    [WxBase EXCEPT !.location = Missing, !.name = Missing,
                   !.region = Missing, !.country = Missing,
                   !.localtime = Missing, !.current = Missing,
                   !.condition = Missing, !.text = Missing,
                   !.temp_c = Missing, !.feelslike_c = Missing,
                   !.humidity = Missing, !.pressure_mb = Missing,
                   !.wind_kph = Missing, !.wind_dir = Missing,
                   !.uv = Missing, !.vis_km = Missing,
                   !.last_updated = Missing]

\* bodies that are no JSON object, or the empty one: a non-empty "list",
\* a "num", JSON "null", the "empty" dict {}, the "empty_list" [], "zero"
WxOddBodies ==
    {[WxNoBlocks EXCEPT !.top = t] :
        t \in {"list", "num", "null", "empty", "empty_list", "zero"}}

\* bodies with a top-level error key
WxErrorBodies ==
    {[WxNoBlocks EXCEPT !.error = "dict", !.errmsg = m] :
        m \in {Missing, "No matching location found."}}
    \cup {[WxNoBlocks EXCEPT !.error = e] : e \in {"str", Null}}

\* answers to current.json
WxCurrentBodies ==
    {[WxBase EXCEPT !.location = l, !.current = c, !.region = r] :
        l \in {"dict", Missing, Null}, c \in {"dict", Missing, Null},
        r \in {"City of London", ""}}
    \cup {[WxBase EXCEPT !.condition = c] : c \in {Missing, Null}}
    \cup {WxNoBlocks}

\* answers to forecast.json
WxForecastBodies ==
    {[WxBase EXCEPT !.forecast = "dict", !.forecastday = "list",
                    !.days = d, !.location = l] :
        d \in DayLists, l \in {"dict", Missing}}
    \cup {[WxBase EXCEPT !.forecast = f] : f \in {Missing, Null}}
    \cup {[WxBase EXCEPT !.forecast = "dict", !.forecastday = fd] :
            fd \in {Missing, Null}}
    \cup {[WxBase EXCEPT !.forecast = "dict", !.forecastday = "list",
                         !.days = <<FullDay>>, !.location = Null]}

\* the decoded bodies of the weather provider's search.json.  top is the
\* JSON type of the body: a non-empty "list", the "empty_list", a non-empty
\* "dict" (an error payload), the "empty" dict, "null", a "num", "zero" or
\* a "str"; first is the JSON type of the first entry of a list
SearchBase ==
    [top |-> "list", first |-> "dict", name |-> "London",
     region |-> "City of London", country |-> "UK"]

SearchBodies ==
    {[SearchBase EXCEPT !.name = n, !.region = r] :
        n \in {Missing, Null, "London"}, r \in {Missing, "", "City of London"}}
    \cup {[SearchBase EXCEPT !.first = f, !.name = Missing,
                             !.region = Missing, !.country = Missing] :
            f \in {Null, "str", "num", "list"}}
    \cup {[SearchBase EXCEPT !.top = t, !.first = Missing, !.name = Missing,
                             !.region = Missing, !.country = Missing] :
            t \in {"empty_list", "dict", "empty", "null", "num", "zero",
                   "str"}}

\* outcome of an outbound GET: a failure, or a 2xx answer with a JSON body
Outcome(kind, body) == [kind |-> kind, body |-> body]

GeoOutcomes ==
    {Outcome(f, GeoBase) : f \in Failures}
    \cup {Outcome("ok", b) : b \in GeoBodies}

SearchOutcomes ==
    {Outcome(f, SearchBase) : f \in Failures}
    \cup {Outcome("ok", b) : b \in SearchBodies}

WxOutcomes(endpoint) ==
    {Outcome(f, WxNoBlocks) : f \in Failures}
    \cup {Outcome("ok", b) : b \in WxOddBodies \cup WxErrorBodies}
    \cup {Outcome("ok", b) :
            b \in IF endpoint = "forecast" THEN WxForecastBodies
                                           ELSE WxCurrentBodies}

----------------------------------------------------------------------------
(* Upstream Gateway *)

USER_AGENT == "weather-app/1.0"

\* what a call returned to its caller: raised, or data (absent = no data)
NoBody == [top |-> "none"]
Returned(body) == [raised |-> FALSE, absent |-> FALSE, data |-> body]
Absent == [raised |-> FALSE, absent |-> TRUE, data |-> NoBody]
Raise == [raised |-> TRUE, absent |-> TRUE, data |-> NoBody]

\* make_request without its response.raise_for_status(): the body of a
\* non-2xx answer is decoded and returned
make_request_StatusUnchecked(outcome) ==
    IF outcome.kind \in {"ok", "http_error"} THEN Returned(outcome.body)
    ELSE Absent

\* make_request with a lenient decoder: a malformed body is decoded to
\* whatever it holds and returned
make_request_BadJsonDecoded(outcome) ==
    IF outcome.kind \in {"ok", "bad_json"} THEN Returned(outcome.body)
    ELSE Absent

\* make_request: client.get, raise_for_status and response.json() are all
\* inside `try ... except Exception: return None`
make_request(outcome) ==
    IF outcome.kind = "ok" THEN Returned(outcome.body)
    ELSE Absent

\* the JSON values Python holds falsy: null, {}, [], 0
Falsy == {"null", "empty", "empty_list", "zero"}

\* `data is None` in place of `not data`
NoData_NoneOnly(r) == r.absent \/ r.data.top = "null"

\* `not data` on what make_request returned
NoData(r) == r.absent \/ r.data.top \in Falsy

----------------------------------------------------------------------------
(* Presentation Formatter.  A text is the sequence of its fragments; NL is *)
(* a line break, BSN the two characters backslash and n.                   *)

NL == "<nl>"
BSN == "\\n"
Rule50 == "(rule x50)"
ApproxNote == "(bulb) Location detected via IP address - may be approximate"

\* a result of Python code that may raise: a text, or an escaped exception
Ok(text) == [exc |-> FALSE, text |-> text]
Exc == [exc |-> TRUE, text |-> <<>>]

RECURSIVE Join(_, _)
\* sep.join(blocks) on texts
Join(blocks, sep) ==
    IF Len(blocks) = 0 THEN <<>>
    ELSE IF Len(blocks) = 1 THEN blocks[1]
    ELSE blocks[1] \o sep \o Join(Tail(blocks), sep)

\* a template line: with its symbol in the decorated style
Ln(with_emojis, sym, toks) == IF with_emojis THEN <<sym>> \o toks ELSE toks

\* data.get("location", {}) of a weather body, when that is a dict
LocationOf(b) ==
    IF b.location = "dict"
    THEN [name |-> b.name, region |-> b.region, country |-> b.country,
          localtime |-> b.localtime]
    ELSE [name |-> Missing, region |-> Missing, country |-> Missing,
          localtime |-> Missing]

\* data.get("current", {}) of a weather body, when that is a dict
CurrentOf(b) ==
    IF b.current = "dict"
    THEN [condition |-> b.condition,
          text |-> IF b.condition = "dict" THEN b.text ELSE Missing,
          temp_c |-> b.temp_c, feelslike_c |-> b.feelslike_c,
          humidity |-> b.humidity, pressure_mb |-> b.pressure_mb,
          wind_kph |-> b.wind_kph, wind_dir |-> b.wind_dir, uv |-> b.uv,
          vis_km |-> b.vis_km, last_updated |-> b.last_updated]
    ELSE [condition |-> Missing, text |-> Missing, temp_c |-> Missing,
          feelslike_c |-> Missing, humidity |-> Missing,
          pressure_mb |-> Missing, wind_kph |-> Missing,
          wind_dir |-> Missing, uv |-> Missing, vis_km |-> Missing,
          last_updated |-> Missing]

\* formatters.format_location_string / server.format_location_string
format_location_string(location) ==
    LET name == Get(location.name, "Unknown location")
        region == Get(location.region, "")
        country == Get(location.country, "")
    IN  IF Truthy(region) THEN <<name, ", ", region, ", ", country>>
        ELSE <<name, ", ", country>>

\* the inline location string of weather.py:
\* {location.get('name', dflt)}, {location.get('region', '')}, {location.get('country', '')}
LocationString3(location, dflt) ==
    <<Get(location.name, dflt), ", ", Get(location.region, ""), ", ",
      Get(location.country, "")>>

\* the field lines shared by every current-weather template
CurrentLines(location, current, with_emojis) ==
    Ln(with_emojis, "(cloud) ",
       <<"Current Conditions: ", Get(current.text, "Unknown"), NL>>)
    \o Ln(with_emojis, "(thermometer) ",
          <<"Temperature: ", Get(current.temp_c, "Unknown"),
            "(deg)C (feels like ", Get(current.feelslike_c, "Unknown"),
            "(deg)C)", NL>>)
    \o Ln(with_emojis, "(droplet) ",
          <<"Humidity: ", Get(current.humidity, "Unknown"), "%", NL>>)
    \o Ln(with_emojis, "(mountain) ",
          <<"Pressure: ", Get(current.pressure_mb, "Unknown"), " mb", NL>>)
    \o Ln(with_emojis, "(wind) ",
          <<"Wind: ", Get(current.wind_kph, "Unknown"), " km/h ",
            Get(current.wind_dir, ""), NL>>)
    \o Ln(with_emojis, "(sun) ",
          <<"UV Index: ", Get(current.uv, "Unknown"), NL>>)
    \o Ln(with_emojis, "(eye) ",
          <<"Visibility: ", Get(current.vis_km, "Unknown"), " km", NL, NL>>)
    \o Ln(with_emojis, "(clock) ",
          <<"Local Time: ", Get(location.localtime, "Unknown"), NL>>)
    \o Ln(with_emojis, "(alarm) ",
          <<"Last Updated: ", Get(current.last_updated, "Unknown")>>)

\* AttributeError of `location.get` / `current.get` / `condition.get` on
\* None while a current-weather template is filled in
CurrentRaises(b) ==
    \/ b.location = Null
    \/ b.current = Null
    \/ (b.current = "dict" /\ b.condition = Null)

\* formatters.format_current_weather / server.format_current_weather on
\* data.get("location", {}), data.get("current", {}), then .strip()
format_current_weather(b, with_emojis) ==
    IF CurrentRaises(b) THEN Exc
    ELSE LET location == LocationOf(b)
             current == CurrentOf(b)
         IN  Ok((IF with_emojis
                 THEN <<"(star) Weather at Your Current Location:", NL,
                        "(pin) ">> \o format_location_string(location)
                      \o <<NL, NL>>
                 ELSE <<"Weather for ">> \o format_location_string(location)
                      \o <<":", NL, NL>>)
                \o CurrentLines(location, current, with_emojis))

\* the inline current-weather templates of weather.py; head is the text up
\* to the location string, dflt the default of location.get('name', ...)
InlineCurrentWeather(b, head, dflt, colon, with_emojis) ==
    IF CurrentRaises(b) THEN Exc
    ELSE LET location == LocationOf(b)
             current == CurrentOf(b)
         IN  Ok(head \o LocationString3(location, dflt)
                \o (IF colon THEN <<":">> ELSE <<>>) \o <<NL, NL>>
                \o CurrentLines(location, current, with_emojis))

\* AttributeError of `day_forecast.get` / `day_data.get` / `condition.get`
DayRaises(d) ==
    \/ d.t # "dict"
    \/ d.day = Null
    \/ (d.day = "dict" /\ d.condition = Null)

\* formatters.format_forecast_day / server.format_forecast_day and the
\* inline day templates of weather.py, then .strip()
format_forecast_day(d, with_emojis) ==
    Ln(with_emojis, "(calendar) ", <<Get(d.date, ""), ":", NL>>)
    \o Ln(with_emojis, "(cloud) ",
          <<"Weather: ", Get(d.text, "Unknown"), NL>>)
    \o Ln(with_emojis, "(thermometer) ",
          <<"Max Temperature: ", Get(d.maxtemp_c, "Unknown"), "(deg)C", NL>>)
    \o Ln(with_emojis, "(thermometer) ",
          <<"Min Temperature: ", Get(d.mintemp_c, "Unknown"), "(deg)C", NL>>)
    \o Ln(with_emojis, "(thermometer) ",
          <<"Avg Temperature: ", Get(d.avgtemp_c, "Unknown"), "(deg)C", NL>>)
    \o Ln(with_emojis, "(droplet) ",
          <<"Humidity: ", Get(d.avghumidity, "Unknown"), "%", NL>>)
    \o Ln(with_emojis, "(wind) ",
          <<"Max Wind: ", Get(d.maxwind_kph, "Unknown"), " km/h", NL>>)
    \o Ln(with_emojis, "(rain) ",
          <<"Chance of Rain: ", Get(d.daily_chance_of_rain, "Unknown"), "%",
            NL>>)
    \o Ln(with_emojis, "(sun) ", <<"UV Index: ", Get(d.uv, "Unknown")>>)

\* [format_forecast_day(d).strip() for d in forecast_days]
DayBlocks(days, with_emojis) ==
    [i \in 1..Len(days) |-> format_forecast_day(days[i], with_emojis)]

\* formatters.format_location_info and the inline blocks of server.py /
\* weather.py, then .strip(); l holds the values after the .get defaults
format_location_info(ip_address, l) ==
    <<"Location information for IP ", ip_address, ":", NL, NL,
      "City: ", l.city, NL, "Region: ", l.region, NL,
      "Country: ", l.country, NL, "Latitude: ", l.lat, NL,
      "Longitude: ", l.lon>>

\* formatters.format_current_location_info and the inline blocks of
\* get_user_current_location, then .strip()
format_current_location_info(l) ==
    <<"(pin) Your Current Location (approximate):", NL, NL,
      "(city) City: ", Get(l.city, "Unknown"), NL,
      "(map) Region: ", Get(l.region, ""), NL,
      "(globe) Country: ", Get(l.country, "Unknown"), NL,
      "(ruler) Coordinates: ", Get0(l.lat), ", ", Get0(l.lon), NL,
      "(clock) Timezone: ", Get(l.timezone, "Unknown"), NL, NL,
      "(bulb) Note: This location is detected using your IP address and may not be completely accurate.",
      NL,
      "If you're using a VPN, the location might show where your VPN server is located.">>

----------------------------------------------------------------------------
(* Location Resolver *)

NoLoc ==
    [ok |-> FALSE, city |-> Null, region |-> Null, country |-> Null,
     lat |-> Null, lon |-> Null, timezone |-> Null]

\* the record projected from a "success" body
Projected(b) ==
    [ok |-> TRUE, city |-> Get0(b.city), region |-> Get0(b.regionName),
     country |-> Get0(b.country), lat |-> Get0(b.lat), lon |-> Get0(b.lon),
     timezone |-> Get0(b.timezone)]

\* fetch_ip_location without its test of status "fail" and with any status
\* projected
fetch_ip_location_StatusUnchecked(r) ==
    IF NoData(r) THEN [exc |-> FALSE, loc |-> NoLoc]
    ELSE IF r.data.top # "dict" THEN [exc |-> TRUE, loc |-> NoLoc]
    ELSE [exc |-> FALSE, loc |-> Projected(r.data)]

\* LocationService.fetch_ip_location / server.get_location_by_ip_api, on
\* what make_request returned: the record, None (NoLoc), or an exception
\* of data.get on a body that is no dict
fetch_ip_location(r) ==
    IF NoData(r) THEN [exc |-> FALSE, loc |-> NoLoc]
    ELSE IF r.data.top # "dict" THEN [exc |-> TRUE, loc |-> NoLoc]
    ELSE IF Get0(r.data.status) = "fail" THEN [exc |-> FALSE, loc |-> NoLoc]
    ELSE IF Get0(r.data.status) = "success"
         THEN [exc |-> FALSE, loc |-> Projected(r.data)]
    ELSE [exc |-> FALSE, loc |-> NoLoc]

\* weather.get_user_location_by_ip: its own client.get, with the decoding
\* and the status test inside `try ... except Exception: return None`
get_user_location_by_ip(outcome) ==
    IF outcome.kind = "ok" /\ outcome.body.top = "dict"
       /\ Get0(outcome.body.status) = "success"
    THEN Projected(outcome.body)
    ELSE NoLoc

\* the values weather.get_location_by_ip / get_location_and_weather_by_ip
\* read from the raw body, with their .get defaults
RawLocation(b) ==
    [ok |-> TRUE, city |-> Get(b.city, "Unknown city"),
     region |-> Get(b.regionName, "Unknown region"),
     country |-> Get(b.country, "Unknown country"),
     lat |-> Get(b.lat, "Unknown latitude"),
     lon |-> Get(b.lon, "Unknown longitude"),
     timezone |-> Get0(b.timezone)]

\* the fallback string of reverse_geocode_coordinates
LocationAt(lat, lon) == <<"Location at ", lat, ", ", lon>>

\* the body of the `try` of reverse_geocode_coordinates on what its GET
\* gave: `if data and len(data) > 0`, `data[0]`, `location.get(...)`.
\* len() of a number raises TypeError, data[0] of a dict KeyError, .get on
\* an entry that is no dict AttributeError.
ReverseGeocodeTry(r, lat, lon) ==
    IF r.raised THEN Exc
    ELSE IF r.absent THEN Ok(LocationAt(lat, lon))
    ELSE IF r.data.top \in {"null", "empty", "empty_list", "zero"}
         THEN Ok(LocationAt(lat, lon))
    ELSE IF r.data.top \in {"num", "dict", "str"} THEN Exc
    ELSE IF r.data.first # "dict" THEN Exc
    ELSE Ok(<<Get(r.data.name, ""), ", ", Get(r.data.region, ""), ", ",
              Get(r.data.country, "")>>)

\* reverse_geocode_coordinates without its `except Exception`
reverse_geocode_coordinates_NoHandler(r, lat, lon) ==
    ReverseGeocodeTry(r, lat, lon)

\* LocationService.reverse_geocode_coordinates and the functions of the
\* same name of server.py and weather.py: `except Exception` returns the
\* fallback string
reverse_geocode_coordinates(r, lat, lon) ==
    IF ReverseGeocodeTry(r, lat, lon).exc THEN Ok(LocationAt(lat, lon))
    ELSE ReverseGeocodeTry(r, lat, lon)

----------------------------------------------------------------------------
(* Weather Fetcher *)

NoReq ==
    [endpoint |-> "none", key |-> Null, q |-> <<>>, days |-> 0,
     timeout |-> "none", ua |-> Missing, ip |-> Null]

\* the outbound GET of a weather URL through make_request; days is 0 on
\* the current endpoint, whose URL has no days parameter
WxRequest(endpoint, key, q, days) ==
    [NoReq EXCEPT !.endpoint = endpoint, !.key = key, !.q = q,
                  !.days = days, !.timeout = "30.0", !.ua = USER_AGENT]

\* the outbound GET of http://ip-api.com/json/{ip} through make_request
GeoRequest(ip) ==
    [NoReq EXCEPT !.endpoint = "ip-api", !.ip = ip, !.timeout = "30.0",
                  !.ua = USER_AGENT]

\* weather.get_user_location_by_ip: client.get(url, timeout=10.0)
GeoRequestDirect ==
    [NoReq EXCEPT !.endpoint = "ip-api", !.timeout = "10.0"]

\* the {"error": {"message": ...}} payload of fetch_weather_data
ErrorPayload(message) ==
    Returned([WxNoBlocks EXCEPT !.error = "dict", !.errmsg = message])

\* the forecast length fetch_weather_data puts in the URL
FetchDays(days) == limit_forecast_days(DaysOr3(days))

\* the forecast length weather.py puts in the URL
InlineDays(days) == Min(Max(days, 1), 3)

\* api_service.fetch_weather_data / server.fetch_weather_data up to the
\* await of make_request: the request to send, or the payload returned
\* without one
fetch_weather_data(key, q, endpoint, days) ==
    IF validate_api_key(key) # Null
    THEN [call |-> FALSE, req |-> NoReq,
          data |-> ErrorPayload(validate_api_key(key))]
    ELSE [call |-> TRUE,
          req |-> WxRequest(endpoint, key, q,
                            IF endpoint = "forecast" THEN FetchDays(days)
                            ELSE 0),
          data |-> Absent]

\* the coordinates in the other order: f"{lon},{lat}"
CoordQuery_Swapped(lat, lon) == <<lon, ",", lat>>

\* f"{lat},{lon}"
CoordQuery(lat, lon) == <<lat, ",", lon>>

\* the outbound GET of search.json: through LocationService.make_request
\* in the services, through the function's own client.get elsewhere; the
\* key goes into the URL untested
SearchRequest(i, lat, lon) ==
    IF i = "svc"
    THEN [NoReq EXCEPT !.endpoint = "search", !.key = weatherapi_key,
                       !.q = CoordQuery(lat, lon), !.timeout = "30.0",
                       !.ua = USER_AGENT]
    ELSE [NoReq EXCEPT !.endpoint = "search", !.key = WEATHERAPI_KEY,
                       !.q = CoordQuery(lat, lon), !.timeout = "10.0"]

\* what the search GET gave the code that awaited it
SearchReturn(i, outcome) ==
    IF i = "svc" THEN make_request(outcome)
    ELSE IF outcome.kind = "ok" THEN Returned(outcome.body)
    ELSE Raise

\* the query with the preference turned round: coordinates when both are
\* there, else the city name
LocationQuery_CoordsFirst(l) ==
    IF l.lat # Null /\ l.lon # Null THEN CoordQuery(l.lat, l.lon)
    ELSE <<l.city>>

\* `query = city if city else f"{lat},{lon}"`
LocationQuery(l) ==
    IF Truthy(l.city) THEN <<l.city>> ELSE CoordQuery(l.lat, l.lon)

\* `if not city and (lat is None or lon is None)`
NoValidLocation(l) == ~Truthy(l.city) /\ (l.lat = Null \/ l.lon = Null)

----------------------------------------------------------------------------
(* Weather texts *)

\* the branches every weather tool takes on the fetched data: no data, a
\* body that is no dict (TypeError / AttributeError), an error key, a report
Respond(r, unable, errhead, report) ==
    IF NoData(r) THEN Ok(unable)
    ELSE IF r.data.top # "dict" THEN Exc
    ELSE IF r.data.error # Missing
         THEN IF r.data.error = "dict"
              THEN Ok(<<errhead, Get(r.data.errmsg, "Unknown error occurred")>>)
              ELSE Exc
    ELSE report

\* forecast.get("forecastday", []) of data.get("forecast", {})
ForecastDays(b) ==
    IF b.forecast = "dict" /\ b.forecastday = "list" THEN b.days ELSE <<>>

\* len(forecast_days), the day count most headers show
ReturnedCount(b) == Len(ForecastDays(b))

\* a forecast report: head(count) is the text up to the location string,
\* locstr the location string, tail what follows it, sep the separator
ForecastReport(b, noforecast, head, locstr, tail, sep, with_emojis) ==
    IF b.forecast = Null THEN Exc
    ELSE IF Len(ForecastDays(b)) = 0 THEN Ok(noforecast)
    ELSE IF \E i \in 1..Len(ForecastDays(b)) : DayRaises(ForecastDays(b)[i])
         THEN Exc
    ELSE IF b.location = Null THEN Exc
    ELSE Ok(head \o locstr \o tail
            \o Join(DayBlocks(ForecastDays(b), with_emojis), sep))

HeaderTok == "-Day Weather Forecast for "

\* WeatherService.get_current_weather after the fetch
get_current_weather(r, q, with_emojis) ==
    Respond(r,
        <<"Unable to fetch weather data for ">> \o q
        \o <<". Please check the location and ensure you have a valid API key.">>,
        "Error: ", format_current_weather(r.data, with_emojis))

\* WeatherService.get_weather_forecast after the fetch
get_weather_forecast(r, q, with_emojis) ==
    Respond(r,
        <<"Unable to fetch forecast data for ">> \o q
        \o <<". Please check the location and ensure you have a valid API key.">>,
        "Error: ",
        ForecastReport(r.data,
            <<"No forecast data available for ">> \o q \o <<".">>,
            <<IntStr(ReturnedCount(r.data)), HeaderTok>>,
            format_location_string(LocationOf(r.data)), <<":", BSN>>,
            <<BSN, "---", BSN>>, with_emojis))

\* index of the first tok in text, 0 when there is none
IndexOf(text, tok) ==
    IF \E i \in 1..Len(text) : text[i] = tok
    THEN CHOOSE i \in 1..Len(text) :
            text[i] = tok /\ \A j \in 1..(i - 1) : text[j] # tok
    ELSE 0

RECURSIVE RStrip(_, _)
\* text.rstrip(tok)
RStrip(text, tok) ==
    IF Len(text) > 0 /\ text[Len(text)] = tok
    THEN RStrip(SubSeq(text, 1, Len(text) - 1), tok)
    ELSE text

\* the header rewrite of WeatherService.get_forecast_at_current_location
CustomizeHeader(forecast_info, days) ==
    LET h == IndexOf(forecast_info, HeaderTok)
        n == IndexOf(forecast_info, NL)
        line0 == SubSeq(forecast_info, 1, n - 1)
        rest == SubSeq(forecast_info, n + 1, Len(forecast_info))
        location_part == RStrip(SubSeq(line0, h + 1, Len(line0)), ":")
    IN  IF h > 0 /\ n > 0
        THEN <<"(star) ", IntStr(days),
               "-Day Weather Forecast for Your Location:", NL, "(pin) ">>
             \o location_part
             \o <<":", NL, NL, ApproxNote, NL, NL, Rule50>> \o rest
        ELSE forecast_info

----------------------------------------------------------------------------
(* Tool Dispatch Layer *)

Impls == {"svc", "server", "weather1", "weather2"}

CityOps == {"get_weather_by_city", "get_weather_forecast_by_city"}
CoordOps == {"get_weather_by_coordinates",
             "get_weather_forecast_by_coordinates"}
IpOps == {"get_location_by_ip", "get_location_and_weather_by_ip"}
CallerOps == {"get_weather_at_current_location",
              "get_forecast_at_current_location"}
ForecastOps == {"get_weather_forecast_by_city",
                "get_weather_forecast_by_coordinates",
                "get_forecast_at_current_location"}
AllOps == CityOps \cup CoordOps \cup IpOps \cup CallerOps
          \cup {"get_user_current_location"}

\* the tools each implementation defines
OpsOf(i) ==
    CASE i = "svc" -> AllOps \ {"get_location_and_weather_by_ip"}
      [] i = "server" -> AllOps
      [] i = "weather1" -> AllOps
      [] i = "weather2" -> CityOps \cup {"get_weather_at_current_location"}

Endpoint(o) == IF o \in ForecastOps THEN "forecast" ELSE "current"

NoArgs ==
    [city |-> Null, lat |-> Null, lon |-> Null, ip_address |-> Null,
     days |-> 3]

Cities == {"London"}
Lats == {Null, "0", "51.5"}
Lons == {Null, "-0.12"}
IpAddresses == {Null, "", "8.8.8.8"}

\* the arguments a caller can pass to tool o
ArgsOf(o) ==
    {[NoArgs EXCEPT !.city = c, !.lat = la, !.lon = lo, !.ip_address = ip,
                    !.days = d] :
        c \in IF o \in CityOps THEN Cities ELSE {Null},
        la \in IF o \in CoordOps THEN Lats ELSE {Null},
        lo \in IF o \in CoordOps THEN Lons ELSE {Null},
        ip \in IF o \in IpOps THEN IpAddresses ELSE {Null},
        d \in IF o \in ForecastOps THEN Days ELSE {3}}

\* how far a tool ran: to an outbound GET ("geo", "wx"), to its return
\* ("done") or to an exception that leaves it ("raised")
Step(next, text, req, l, q) ==
    [next |-> next, text |-> text, req |-> req, loc |-> l, query |-> q]

Done(text, l, q) == Step("done", text, NoReq, l, q)
Raised(l, q) == Step("raised", <<>>, NoReq, l, q)
Finish(x, l, q) == IF x.exc THEN Raised(l, q) ELSE Done(x.text, l, q)

ExcText == "(str(e))"

\* the city a by-city template names: the argument, or the detected city
CityOf(o, a, l) == IF o \in CallerOps THEN l.city ELSE a.city

\* the current-weather text of server.py's tools after the fetch
ServerCurrent(o, a, l, q, r) ==
    CASE o = "get_weather_by_city" ->
            Respond(r,
                <<"Unable to fetch weather data for ", a.city,
                  ". Please check the city name and ensure you have a valid API key.">>,
                "Error: ", format_current_weather(r.data, FALSE))
      [] o \in {"get_weather_by_coordinates",
                "get_location_and_weather_by_ip"} ->
            Respond(r,
                <<"Unable to fetch weather data. Please try again later.">>,
                "Error: ", format_current_weather(r.data, FALSE))
      [] o = "get_weather_at_current_location" ->
            Respond(r,
                <<"Unable to fetch weather data for your current location (">>
                \o q \o <<"). Please try asking for weather in a specific city.">>,
                "Error getting weather for your location: ",
                LET w == format_current_weather(r.data, TRUE)
                IN  IF w.exc THEN Exc
                    ELSE Ok(w.text \o <<NL, NL, ApproxNote>>))

\* the forecast text of server.py's own forecast tools after the fetch
ServerForecast(o, a, q, r) ==
    Respond(r,
        IF o = "get_weather_forecast_by_city"
        THEN <<"Unable to fetch forecast data for ", a.city,
               ". Please check the city name and ensure you have a valid API key.">>
        ELSE <<"Unable to fetch forecast data. Please try again later.">>,
        "Error: ",
        ForecastReport(r.data,
            IF o = "get_weather_forecast_by_city"
            THEN <<"No forecast data available for ", a.city, ".">>
            ELSE <<"No forecast data available for the specified location.">>,
            <<IntStr(ReturnedCount(r.data)), HeaderTok>>,
            format_location_string(LocationOf(r.data)), <<":", NL>>,
            <<NL, "---", NL>>, FALSE))

\* the current-weather text of weather.py's first tool set after the fetch
Weather1Current(o, a, l, q, r) ==
    CASE o = "get_weather_by_city" ->
            Respond(r,
                <<"Unable to fetch weather data for ", a.city,
                  ". Please check the city name and ensure you have a valid API key.">>,
                "Error: ",
                InlineCurrentWeather(r.data, <<"Weather for ">>, a.city,
                                     TRUE, FALSE))
      [] o \in {"get_weather_by_coordinates",
                "get_location_and_weather_by_ip"} ->
            Respond(r,
                <<"Unable to fetch weather data. Please try again later.">>,
                "Error: ",
                InlineCurrentWeather(r.data, <<"Weather for ">>,
                                     "Unknown location", TRUE, FALSE))
      [] o = "get_weather_at_current_location" ->
            Respond(r,
                <<"Unable to fetch weather data for your current location (">>
                \o q \o <<"). Please try asking for weather in a specific city.">>,
                "Error getting weather for your location: ",
                LET w == InlineCurrentWeather(r.data,
                            <<"(star) Weather at Your Current Location:", NL,
                              "(pin) ">>, "Your location", FALSE, TRUE)
                IN  IF w.exc THEN Exc
                    ELSE Ok(w.text \o <<NL, NL, ApproxNote>>))

\* the forecast text of weather.py's first tool set after the fetch
Weather1Forecast(o, a, q, r) ==
    CASE o = "get_weather_forecast_by_city" ->
            Respond(r,
                <<"Unable to fetch forecast data for ", a.city,
                  ". Please check the city name and ensure you have a valid API key.">>,
                "Error: ",
                ForecastReport(r.data,
                    <<"No forecast data available for ", a.city, ".">>,
                    <<IntStr(InlineDays(a.days)), HeaderTok>>,
                    LocationString3(LocationOf(r.data), a.city),
                    <<":", NL>>, <<NL, "---", NL>>, FALSE))
      [] o = "get_weather_forecast_by_coordinates" ->
            Respond(r,
                <<"Unable to fetch forecast data. Please try again later.">>,
                "Error: ",
                ForecastReport(r.data,
                    <<"No forecast data available for the specified location.">>,
                    <<IntStr(InlineDays(a.days)), HeaderTok>>,
                    LocationString3(LocationOf(r.data), "Unknown location"),
                    <<":", NL>>, <<NL, "---", NL>>, FALSE))
      [] o = "get_forecast_at_current_location" ->
            Respond(r,
                <<"Unable to fetch forecast data for your current location (">>
                \o q \o <<"). Please try asking for forecast in a specific city.">>,
                "Error getting forecast for your location: ",
                ForecastReport(r.data,
                    <<"No forecast data available for your current location.">>,
                    <<"(star) ", IntStr(InlineDays(a.days)),
                      "-Day Weather Forecast for Your Location:", NL,
                      "(pin) ">>,
                    LocationString3(LocationOf(r.data), "Your location"),
                    <<":", NL, NL, ApproxNote, NL, NL, Rule50>>, <<NL>>,
                    TRUE))

\* weather.py's second get_weather_by_city / get_weather_forecast_by_city
\* after the fetch, inside their `try ... except Exception`
Weather2Text(o, city, r) ==
    LET x == IF o = "get_weather_forecast_by_city"
             THEN Respond(r,
                    <<"Unable to fetch forecast data for ", city,
                      ". Please check the city name.">>,
                    "Error: ",
                    ForecastReport(r.data,
                        <<"No forecast data available for ", city, ".">>,
                        <<"(star) ", IntStr(ReturnedCount(r.data)),
                          HeaderTok>>,
                        LocationString3(LocationOf(r.data), city),
                        <<":", NL, NL, Rule50>>, <<NL>>, TRUE))
             ELSE Respond(r,
                    <<"Unable to fetch weather data for ", city,
                      ". Please check the city name.">>,
                    "Error: ",
                    InlineCurrentWeather(r.data, <<"(star) Weather for ">>,
                                         city, TRUE, TRUE))
    IN  IF x.exc
        THEN Ok(<<IF o = "get_weather_forecast_by_city"
                  THEN "Error getting forecast for "
                  ELSE "Error getting weather for ", city, ": ", ExcText>>)
        ELSE x

\* the text of the services' tools after the fetch
SvcText(o, a, q, r) ==
    CASE o \in {"get_weather_by_city", "get_weather_by_coordinates"} ->
            get_current_weather(r, q, FALSE)
      [] o \in {"get_weather_forecast_by_city",
                "get_weather_forecast_by_coordinates"} ->
            get_weather_forecast(r, q, FALSE)
      [] o = "get_weather_at_current_location" ->
            LET w == get_current_weather(r, q, TRUE)
            IN  IF w.exc THEN Exc ELSE Ok(w.text \o <<NL, NL, ApproxNote>>)
      [] o = "get_forecast_at_current_location" ->
            LET f == get_weather_forecast(r, q, TRUE)
            IN  IF f.exc THEN Exc ELSE Ok(CustomizeHeader(f.text, a.days))

\* location_info.strip() + "\n\n" + weather_info
WithLocationBlock(a, l, w) ==
    IF w.exc THEN Exc
    ELSE Ok(format_location_info(a.ip_address, l) \o <<NL, NL>> \o w.text)

\* the rest of tool o of implementation i once the weather data r is there
AfterWx(i, o, a, l, q, r) ==
    CASE i = "svc" \/ (i = "server" /\ o = "get_forecast_at_current_location")
            -> SvcText(o, a, q, r)
      [] i = "server" /\ o = "get_location_and_weather_by_ip" ->
            WithLocationBlock(a, l, ServerCurrent(o, a, l, q, r))
      [] i = "server" /\ o \in ForecastOps
                      /\ o # "get_forecast_at_current_location" ->
            ServerForecast(o, a, q, r)
      [] i = "server" /\ o \notin ForecastOps
                      /\ o # "get_location_and_weather_by_ip" ->
            ServerCurrent(o, a, l, q, r)
      [] i = "weather1" /\ o = "get_location_and_weather_by_ip" ->
            WithLocationBlock(a, l, Weather1Current(o, a, l, q, r))
      [] i = "weather1" /\ o \in ForecastOps -> Weather1Forecast(o, a, q, r)
      [] i = "weather1" /\ o \notin ForecastOps
                        /\ o # "get_location_and_weather_by_ip" ->
            Weather1Current(o, a, l, q, r)
      [] i = "weather2" -> Weather2Text(o, CityOf(o, a, l), r)

\* the tools of weather.py's first set that test the key before fetching
Weather1KeyChecked ==
    CityOps \cup CallerOps

\* the API key test of weather.py's first tool set, tool by tool
Weather1KeyRejected(o) == o \in Weather1KeyChecked /\ ~Truthy(WEATHERAPI_KEY)

\* the key the fetch of tool o of implementation i reads
KeyOf(i, o) ==
    IF i = "svc" \/ (i = "server" /\ o = "get_forecast_at_current_location")
    THEN weatherapi_key
    ELSE WEATHERAPI_KEY

\* from the point where tool o has its query q to its outbound weather GET,
\* or to its return when the key test stops it
WxStart(i, o, a, l, q) ==
    IF i \in {"svc", "server"}
    THEN LET f == fetch_weather_data(KeyOf(i, o), q, Endpoint(o), a.days)
         IN  IF f.call THEN Step("wx", <<>>, f.req, l, q)
             ELSE Finish(AfterWx(i, o, a, l, q, f.data), l, q)
    ELSE IF i = "weather1" /\ Weather1KeyRejected(o)
         THEN Done(<<ConfigErrorMsg>>, l, q)
    ELSE IF i = "weather2" /\ KeyRejected2(WEATHERAPI_KEY)
         THEN Done(<<ConfigErrorMsg2>>, l, q)
    ELSE Step("wx", <<>>,
              WxRequest(Endpoint(o), WEATHERAPI_KEY, q,
                        IF Endpoint(o) = "forecast" THEN InlineDays(a.days)
                        ELSE 0),
              l, q)

LatLonRequired(o) ==
    IF o \in ForecastOps
    THEN "Latitude and longitude are required to fetch forecast."
    ELSE "Latitude and longitude are required to fetch weather."

\* the same with the by-IP tools falling back to the caller's own address
\* when no ip_address is given
Start_SelfLookupFallback(i, o, a) ==
    CASE o \in CityOps -> WxStart(i, o, a, NoLoc, <<a.city>>)
      [] o \in CoordOps ->
            IF a.lat = Null \/ a.lon = Null
            THEN Done(<<LatLonRequired(o)>>, NoLoc, <<>>)
            ELSE WxStart(i, o, a, NoLoc, CoordQuery(a.lat, a.lon))
      [] o \in IpOps ->
            Step("geo", <<>>,
                 GeoRequest(IF Truthy(a.ip_address) THEN a.ip_address
                            ELSE Null),
                 NoLoc, <<>>)
      [] o \in CallerOps \cup {"get_user_current_location"} ->
            Step("geo", <<>>,
                 IF i \in {"weather1", "weather2"} THEN GeoRequestDirect
                 ELSE GeoRequest(Null),
                 NoLoc, <<>>)

\* the same with the at-caller-location tools fanning out: the weather GET
\* on the provider's "auto:ip" query is issued at once, before resolution
Start_WeatherAtOnce(i, o, a) ==
    CASE o \in CityOps -> WxStart(i, o, a, NoLoc, <<a.city>>)
      [] o \in CoordOps ->
            IF a.lat = Null \/ a.lon = Null
            THEN Done(<<LatLonRequired(o)>>, NoLoc, <<>>)
            ELSE WxStart(i, o, a, NoLoc, CoordQuery(a.lat, a.lon))
      [] o \in IpOps ->
            IF ~Truthy(a.ip_address)
            THEN Done(<<IF o = "get_location_by_ip"
                        THEN "IP address is required to fetch location."
                        ELSE "IP address is required to fetch location and weather.">>,
                      NoLoc, <<>>)
            ELSE Step("geo", <<>>, GeoRequest(a.ip_address), NoLoc, <<>>)
      [] o \in CallerOps ->
            Step("wx", <<>>,
                 WxRequest(Endpoint(o), KeyOf(i, o), <<"auto:ip">>, 0),
                 NoLoc, <<"auto:ip">>)
      [] o = "get_user_current_location" ->
            Step("geo", <<>>,
                 IF i \in {"weather1", "weather2"} THEN GeoRequestDirect
                 ELSE GeoRequest(Null),
                 NoLoc, <<>>)

\* tool o of implementation i from its call to its first outbound GET
Start(i, o, a) ==
    CASE o \in CityOps -> WxStart(i, o, a, NoLoc, <<a.city>>)
      [] o \in CoordOps ->
            IF a.lat = Null \/ a.lon = Null
            THEN Done(<<LatLonRequired(o)>>, NoLoc, <<>>)
            ELSE WxStart(i, o, a, NoLoc, CoordQuery(a.lat, a.lon))
      [] o \in IpOps ->
            IF ~Truthy(a.ip_address)
            THEN Done(<<IF o = "get_location_by_ip"
                        THEN "IP address is required to fetch location."
                        ELSE "IP address is required to fetch location and weather.">>,
                      NoLoc, <<>>)
            ELSE Step("geo", <<>>, GeoRequest(a.ip_address), NoLoc, <<>>)
      [] o \in CallerOps \cup {"get_user_current_location"} ->
            Step("geo", <<>>,
                 IF i \in {"weather1", "weather2"} THEN GeoRequestDirect
                 ELSE GeoRequest(Null),
                 NoLoc, <<>>)

\* one message for every failed resolution
SorryText_Generic(o) == "Unable to fetch location data. Please try again later."

SorryText(o) ==
    CASE o = "get_user_current_location" ->
            "(x) Sorry, I couldn't determine your current location. This might be due to network restrictions or VPN usage."
      [] o = "get_weather_at_current_location" ->
            "(x) Sorry, I couldn't determine your current location to get the weather. You can ask for weather in a specific city instead!"
      [] o = "get_forecast_at_current_location" ->
            "(x) Sorry, I couldn't determine your current location to get the forecast. You can ask for forecast in a specific city instead!"

UnableLocation == "Unable to fetch location data. Please try again later."
NoValidLocationMsg == "(x) Could not determine a valid location for weather lookup."
NoValidCityMsg == "(x) Could not determine a valid city for weather lookup."

\* the same with `if not lat or not lon`: a coordinate 0 counts as missing
LocationThenWeather_FalsyTest(i, o, a, l) ==
    IF ~Truthy(l.lat) \/ ~Truthy(l.lon)
    THEN Done(format_location_info(a.ip_address, l)
              \o <<NL, NL, LatLonRequired(o)>>, l, <<>>)
    ELSE WxStart(i, o, a, l, CoordQuery(l.lat, l.lon))

\* get_location_and_weather_by_ip from the resolved record l on:
\* `await get_weather_by_coordinates(lat, lon)` and the concatenation
LocationThenWeather(i, o, a, l) ==
    IF l.lat = Null \/ l.lon = Null
    THEN Done(format_location_info(a.ip_address, l)
              \o <<NL, NL, LatLonRequired(o)>>, l, <<>>)
    ELSE WxStart(i, o, a, l, CoordQuery(l.lat, l.lon))

\* the same with a retry: on an absent record the geolocation GET is
\* issued again
CallerLocation_Retries(i, o, a, l) ==
    IF ~l.ok
    THEN Step("geo", <<>>,
              IF i \in {"weather1", "weather2"} THEN GeoRequestDirect
              ELSE GeoRequest(Null), l, <<>>)
    ELSE IF i = "weather2"
         THEN IF ~Truthy(l.city) THEN Done(<<NoValidCityMsg>>, l, <<>>)
              ELSE WxStart(i, o, a, l, <<l.city>>)
    ELSE IF NoValidLocation(l) THEN Done(<<NoValidLocationMsg>>, l, <<>>)
    ELSE WxStart(i, o, a, l, LocationQuery(l))

\* the at-caller-location tools from the resolved record l on
CallerLocation(i, o, a, l) ==
    IF ~l.ok THEN Done(<<SorryText(o)>>, l, <<>>)
    ELSE IF i = "weather2"
         THEN IF ~Truthy(l.city) THEN Done(<<NoValidCityMsg>>, l, <<>>)
              ELSE WxStart(i, o, a, l, <<l.city>>)
    ELSE IF NoValidLocation(l) THEN Done(<<NoValidLocationMsg>>, l, <<>>)
    ELSE WxStart(i, o, a, l, LocationQuery(l))

\* the same with a by-IP tool that goes on to fetch the weather of the
\* resolved coordinates
AfterGeoResolver_ByIpFetchesWeather(i, o, a, r) ==
    LET x == fetch_ip_location(r)
        l == x.loc
    IN  IF x.exc THEN Raised(NoLoc, <<>>)
        ELSE CASE o \in IpOps /\ ~l.ok -> Done(<<UnableLocation>>, l, <<>>)
               [] o = "get_location_by_ip" /\ l.ok ->
                    Step("wx", <<>>,
                         WxRequest("current", KeyOf(i, o),
                                   CoordQuery(l.lat, l.lon), 0),
                         l, CoordQuery(l.lat, l.lon))
               [] o = "get_location_and_weather_by_ip" /\ l.ok ->
                    LocationThenWeather(i, o, a, l)
               [] o = "get_user_current_location" ->
                    IF ~l.ok THEN Done(<<SorryText(o)>>, l, <<>>)
                    ELSE Done(format_current_location_info(l), l, <<>>)
               [] o \in CallerOps -> CallerLocation(i, o, a, l)

\* the tools of the services and of server.py once the geolocation GET
\* ended: fetch_ip_location on what make_request returned, then the tool
AfterGeoResolver(i, o, a, r) ==
    LET x == fetch_ip_location(r)
        l == x.loc
    IN  IF x.exc THEN Raised(NoLoc, <<>>)
        ELSE CASE o \in IpOps /\ ~l.ok -> Done(<<UnableLocation>>, l, <<>>)
               [] o = "get_location_by_ip" /\ l.ok ->
                    Done(format_location_info(a.ip_address, l), l, <<>>)
               [] o = "get_location_and_weather_by_ip" /\ l.ok ->
                    LocationThenWeather(i, o, a, l)
               [] o = "get_user_current_location" ->
                    IF ~l.ok THEN Done(<<SorryText(o)>>, l, <<>>)
                    ELSE Done(format_current_location_info(l), l, <<>>)
               [] o \in CallerOps -> CallerLocation(i, o, a, l)

\* weather.get_location_by_ip / get_location_and_weather_by_ip once the
\* geolocation GET ended: the raw body is read by the tool itself
AfterGeoRaw(i, o, a, r) ==
    IF NoData(r) THEN Done(<<UnableLocation>>, NoLoc, <<>>)
    ELSE IF r.data.top # "dict" THEN Raised(NoLoc, <<>>)
    ELSE IF Get0(r.data.status) = "fail"
         THEN Done(<<"Error: ", Get(r.data.message, "Unknown error occurred")>>,
                   NoLoc, <<>>)
    ELSE IF o = "get_location_by_ip"
         THEN Done(format_location_info(a.ip_address, RawLocation(r.data)),
                   RawLocation(r.data), <<>>)
    ELSE LocationThenWeather(i, o, a, RawLocation(r.data))

\* the at-caller-location tools of weather.py once the geolocation GET ended
AfterGeoDirect(i, o, a, outcome) ==
    LET l == get_user_location_by_ip(outcome)
    IN  IF o = "get_user_current_location"
        THEN IF ~l.ok THEN Done(<<SorryText(o)>>, l, <<>>)
             ELSE Done(format_current_location_info(l), l, <<>>)
        ELSE CallerLocation(i, o, a, l)

\* whether tool o of implementation i sends its geolocation GET through
\* make_request (or through its own client.get)
GeoViaGateway(i, o) == i \in {"svc", "server"} \/ o \in IpOps

\* what the geolocation GET gave the code that awaited it: the return of
\* make_request, or the body / the exception of the tool's own client.get
GeoReturn(i, o, outcome) ==
    IF GeoViaGateway(i, o) THEN make_request(outcome)
    ELSE IF outcome.kind = "ok" THEN Returned(outcome.body)
    ELSE Raise

\* tool o of implementation i from the end of its geolocation GET to its
\* next outbound GET or its return
AfterGeo(i, o, a, outcome) ==
    IF i \in {"svc", "server"}
    THEN AfterGeoResolver(i, o, a, make_request(outcome))
    ELSE IF o \in IpOps THEN AfterGeoRaw(i, o, a, make_request(outcome))
    ELSE AfterGeoDirect(i, o, a, outcome)

----------------------------------------------------------------------------
(* The state machine *)

NoGw ==
    [target |-> "none", via |-> "none", kind |-> "none",
     body |-> NoBody, ret |-> Absent]

Init ==
    /\ envKey \in EnvKeys
    /\ pc = "idle"
    /\ impl = "none"
    /\ op = "none"
    /\ args = NoArgs
    /\ loc = NoLoc
    /\ query = <<>>
    /\ geoCalls = 0
    /\ wxCalls = 0
    /\ wxReq = NoReq
    /\ geoReq = NoReq
    /\ gw = NoGw
    /\ result = <<>>

\* the tool ran on to st: it awaits an outbound GET, returned or raised
Advance(st) ==
    /\ pc' = CASE st.next = "geo" -> "geo_wait"
               [] st.next = "wx" -> "wx_wait"
               [] st.next = "search" -> "search_wait"
               [] st.next = "done" -> "done"
               [] st.next = "raised" -> "raised"
    /\ result' = st.text
    /\ loc' = st.loc
    /\ query' = st.query
    /\ geoCalls' = IF st.next = "geo" THEN geoCalls + 1 ELSE geoCalls
    /\ geoReq' = IF st.next = "geo" THEN st.req ELSE geoReq
    /\ wxCalls' = IF st.next \in {"wx", "search"} THEN wxCalls + 1
                  ELSE wxCalls
    /\ wxReq' = IF st.next \in {"wx", "search"} THEN st.req ELSE wxReq

\* a caller invokes tool o of implementation i with arguments a
Invoke ==
    /\ pc = "idle"
    /\ \E i \in Impls : \E o \in OpsOf(i) : \E a \in ArgsOf(o) :
          /\ impl' = i
          /\ op' = o
          /\ args' = a
          /\ Advance(Start(i, o, a))
    /\ UNCHANGED <<envKey, gw>>

\* the pending geolocation GET ends and the tool runs on
GeoRespond ==
    /\ pc = "geo_wait"
    /\ \E outcome \in GeoOutcomes :
          /\ gw' = [target |-> "geo",
                    via |-> IF GeoViaGateway(impl, op) THEN "make_request"
                            ELSE "client.get",
                    kind |-> outcome.kind, body |-> outcome.body,
                    ret |-> GeoReturn(impl, op, outcome)]
          /\ Advance(AfterGeo(impl, op, args, outcome))
    /\ UNCHANGED <<envKey, impl, op, args>>

\* the pending weather GET ends and the tool runs on to its return
WxRespond ==
    /\ pc = "wx_wait"
    /\ \E outcome \in WxOutcomes(wxReq.endpoint) :
          /\ gw' = [target |-> "wx", via |-> "make_request",
                    kind |-> outcome.kind, body |-> outcome.body,
                    ret |-> make_request(outcome)]
          /\ Advance(Finish(AfterWx(impl, op, args, loc, query,
                                    make_request(outcome)), loc, query))
    /\ UNCHANGED <<envKey, impl, op, args>>

\* the implementations that define reverse_geocode_coordinates
GeocoderImpls == {"svc", "server", "weather1"}

\* reverse_geocode_coordinates(lat, lon) is called and awaits its GET
ReverseGeocode ==
    /\ pc = "idle"
    /\ \E i \in GeocoderImpls : \E la \in Lats \ {Null} :
       \E lo \in Lons \ {Null} :
          /\ impl' = i
          /\ op' = "reverse_geocode_coordinates"
          /\ args' = [NoArgs EXCEPT !.lat = la, !.lon = lo]
          /\ Advance(Step("search", <<>>, SearchRequest(i, la, lo), NoLoc,
                          <<>>))
    /\ UNCHANGED <<envKey, gw>>

\* the pending search GET ends and reverse_geocode_coordinates returns
SearchRespond ==
    /\ pc = "search_wait"
    /\ \E outcome \in SearchOutcomes :
          /\ gw' = [target |-> "search",
                    via |-> IF impl = "svc" THEN "make_request"
                            ELSE "client.get",
                    kind |-> outcome.kind, body |-> outcome.body,
                    ret |-> SearchReturn(impl, outcome)]
          /\ Advance(Finish(reverse_geocode_coordinates(
                                SearchReturn(impl, outcome), args.lat,
                                args.lon), NoLoc, <<>>))
    /\ UNCHANGED <<envKey, impl, op, args>>

\* the text (or the exception) reaches the caller; the next invocation
\* starts from a fresh frame
Return ==
    /\ pc \in {"done", "raised"}
    /\ pc' = "idle"
    /\ impl' = "none"
    /\ op' = "none"
    /\ args' = NoArgs
    /\ loc' = NoLoc
    /\ query' = <<>>
    /\ geoCalls' = 0
    /\ wxCalls' = 0
    /\ wxReq' = NoReq
    /\ geoReq' = NoReq
    /\ gw' = NoGw
    /\ result' = <<>>
    /\ UNCHANGED envKey

Next ==
    \/ Invoke
    \/ GeoRespond
    \/ WxRespond
    \/ ReverseGeocode
    \/ SearchRespond
    \/ Return

Spec == Init /\ [][Next]_vars

\* every outbound GET ends: the provider responds, or the timeout of
\* client.get expires; a finished tool hands its result back
SpecLive ==
    /\ Init
    /\ [][Next]_vars
    /\ WF_vars(GeoRespond)
    /\ WF_vars(WxRespond)
    /\ WF_vars(SearchRespond)
    /\ WF_vars(Return)

----------------------------------------------------------------------------
(* Concurrent invocations.  The tools are coroutines of one event loop: an *)
(* invocation is suspended at each `await` of an outbound GET and others   *)
(* run meanwhile.  Every variable of a tool is a local of its coroutine,   *)
(* the httpx.AsyncClient is created per GET, and the module level holds    *)
(* only the configuration, which nothing writes.  Under SpecConc the       *)
(* variables pc .. result hold one value per task.                         *)

Tasks == 1..MaxTasks

\* the tools and inputs of the concurrent runs
ConcImpls == {"svc"}
ConcOps == {"get_weather_by_city", "get_forecast_at_current_location"}
ConcArgs(o) ==
    {[NoArgs EXCEPT !.city = IF o \in CityOps THEN "London" ELSE Null,
                    !.days = d] :
        d \in IF o \in ForecastOps THEN {2} ELSE {3}}

\* the upstream outcomes of the concurrent runs
ConcGeoOutcomes ==
    {Outcome("timeout", GeoBase), Outcome("ok", GeoBase),
     Outcome("ok", [GeoBase EXCEPT !.city = Missing])}

ConcWxOutcomes(endpoint) ==
    {Outcome("timeout", WxNoBlocks),
     Outcome("ok", [WxNoBlocks EXCEPT !.error = "dict",
                                      !.errmsg = "No matching location found."]),
     Outcome("ok", IF endpoint = "forecast"
                   THEN [WxBase EXCEPT !.forecast = "dict",
                                       !.forecastday = "list",
                                       !.days = <<FullDay>>]
                   ELSE WxBase)}

\* no GET of the task has ended yet
NoOutcome == Outcome("none", NoBody)
NoHistory == [geo |-> NoOutcome, wx |-> NoOutcome]

\* a variable read as if it were one module-level variable: every task
\* reads the value of the first task
Mine_Shared(v, t) == v[1]

\* the local variable v (location_data, query) that the coroutine of task t
\* assigned before its await and reads after it
Mine(v, t) == v[t]

ConcInit ==
    /\ envKey \in EnvKeys
    /\ pc = [t \in Tasks |-> "idle"]
    /\ impl = [t \in Tasks |-> "none"]
    /\ op = [t \in Tasks |-> "none"]
    /\ args = [t \in Tasks |-> NoArgs]
    /\ loc = [t \in Tasks |-> NoLoc]
    /\ query = [t \in Tasks |-> <<>>]
    /\ geoCalls = [t \in Tasks |-> 0]
    /\ wxCalls = [t \in Tasks |-> 0]
    /\ wxReq = [t \in Tasks |-> NoReq]
    /\ geoReq = [t \in Tasks |-> NoReq]
    /\ gw = [t \in Tasks |-> NoHistory]
    /\ result = [t \in Tasks |-> <<>>]

\* task t ran on to st
ConcAdvance(t, st) ==
    /\ pc' = [pc EXCEPT ![t] = CASE st.next = "geo" -> "geo_wait"
                                 [] st.next = "wx" -> "wx_wait"
                                 [] st.next = "done" -> "done"
                                 [] st.next = "raised" -> "raised"]
    /\ result' = [result EXCEPT ![t] = st.text]
    /\ loc' = [loc EXCEPT ![t] = st.loc]
    /\ query' = [query EXCEPT ![t] = st.query]
    /\ geoCalls' = [geoCalls EXCEPT ![t] =
                        IF st.next = "geo" THEN @ + 1 ELSE @]
    /\ geoReq' = [geoReq EXCEPT ![t] = IF st.next = "geo" THEN st.req ELSE @]
    /\ wxCalls' = [wxCalls EXCEPT ![t] = IF st.next = "wx" THEN @ + 1 ELSE @]
    /\ wxReq' = [wxReq EXCEPT ![t] = IF st.next = "wx" THEN st.req ELSE @]

\* a caller invokes a tool as task t while other tasks are in flight
ConcInvoke(t) ==
    /\ pc[t] = "idle"
    /\ \E i \in ConcImpls : \E o \in ConcOps : \E a \in ConcArgs(o) :
          /\ impl' = [impl EXCEPT ![t] = i]
          /\ op' = [op EXCEPT ![t] = o]
          /\ args' = [args EXCEPT ![t] = a]
          /\ ConcAdvance(t, Start(i, o, a))
    /\ UNCHANGED <<envKey, gw>>

\* the geolocation GET of task t ends and its coroutine is resumed
ConcGeoRespond(t) ==
    /\ pc[t] = "geo_wait"
    /\ \E outcome \in ConcGeoOutcomes :
          /\ gw' = [gw EXCEPT ![t].geo = outcome]
          /\ ConcAdvance(t, AfterGeo(impl[t], op[t], args[t], outcome))
    /\ UNCHANGED <<envKey, impl, op, args>>

\* the weather GET of task t ends and its coroutine runs to its return
ConcWxRespond(t) ==
    /\ pc[t] = "wx_wait"
    /\ \E outcome \in ConcWxOutcomes(wxReq[t].endpoint) :
          /\ gw' = [gw EXCEPT ![t].wx = outcome]
          /\ ConcAdvance(t,
                Finish(AfterWx(impl[t], op[t], args[t],
                               Mine(loc, t), Mine(query, t),
                               make_request(outcome)),
                       Mine(loc, t), Mine(query, t)))
    /\ UNCHANGED <<envKey, impl, op, args>>

\* the text of task t reaches its caller and the coroutine is gone
ConcReturn(t) ==
    /\ pc[t] \in {"done", "raised"}
    /\ pc' = [pc EXCEPT ![t] = "idle"]
    /\ impl' = [impl EXCEPT ![t] = "none"]
    /\ op' = [op EXCEPT ![t] = "none"]
    /\ args' = [args EXCEPT ![t] = NoArgs]
    /\ loc' = [loc EXCEPT ![t] = NoLoc]
    /\ query' = [query EXCEPT ![t] = <<>>]
    /\ geoCalls' = [geoCalls EXCEPT ![t] = 0]
    /\ wxCalls' = [wxCalls EXCEPT ![t] = 0]
    /\ wxReq' = [wxReq EXCEPT ![t] = NoReq]
    /\ geoReq' = [geoReq EXCEPT ![t] = NoReq]
    /\ gw' = [gw EXCEPT ![t] = NoHistory]
    /\ result' = [result EXCEPT ![t] = <<>>]
    /\ UNCHANGED envKey

ConcNext ==
    \E t \in Tasks :
        \/ ConcInvoke(t)
        \/ ConcGeoRespond(t)
        \/ ConcWxRespond(t)
        \/ ConcReturn(t)

SpecConc == ConcInit /\ [][ConcNext]_vars

----------------------------------------------------------------------------
(* Properties *)

Running == pc \in {"geo_wait", "wx_wait", "done", "raised"}

\* the tool is past its location resolution
Resolved == pc \in {"wx_wait", "done", "raised"}

\* the tools that fetch weather
WeatherOps ==
    CityOps \cup CoordOps \cup CallerOps \cup {"get_location_and_weather_by_ip"}

\* the arguments of the running invocation pass the tool's own argument test
ValidArgs ==
    /\ op \in CoordOps => (args.lat # Null /\ args.lon # Null)
    /\ op \in IpOps => Truthy(args.ip_address)

\* the tool handed a query to the Weather Fetcher
FetcherReached == Running /\ query # <<>>

Contains(text, tok) == \E i \in 1..Len(text) : text[i] = tok

\* the text carries a fixed configuration-error message
IsConfigError(text) ==
    Contains(text, ConfigErrorMsg) \/ Contains(text, ConfigErrorMsg2)

\* C1: in every forecast operation, for every integer days the caller
\* passes (0, negative and above 3 included), the days parameter of the
\* outbound forecast request is min(max(days, 1), 3).
C1_RequestDaysClamped ==
    (op \in ForecastOps /\ wxCalls > 0)
        => wxReq.days = Min(Max(args.days, 1), 3)

\* C2: with the API key unset (absent or empty where the tool reads it),
\* every weather-fetching operation returns the fixed configuration-error
\* message and attempts no outbound call to any provider.
C2_UnsetKeyNoOutboundCall ==
    (Running /\ op \in WeatherOps /\ ValidArgs /\ ~Truthy(KeyOf(impl, op)))
        => /\ geoCalls = 0
           /\ wxCalls = 0
           /\ pc = "done"
           /\ IsConfigError(result)

\* C3: the Weather Fetcher treats a key equal to the placeholder sentinel
\* like an absent key: the configuration-error text is returned and no
\* call goes to the weather provider.
C3_PlaceholderKeyRejected ==
    (FetcherReached /\ KeyOf(impl, op) = PlaceholderKey)
        => /\ wxCalls = 0
           /\ pc = "done"
           /\ IsConfigError(result)

\* C4: at-caller-location (weather and forecast), on a resolved record with
\* no city name and lat or lon missing, returns the fixed "could not
\* determine a valid location" message and makes no weather call.
C4_NoValidLocationMessage ==
    (op \in CallerOps /\ Resolved /\ loc.ok /\ ~Truthy(loc.city)
        /\ (loc.lat = Null \/ loc.lon = Null))
        => /\ pc = "done"
           /\ result = <<NoValidLocationMsg>>
           /\ wxCalls = 0

\* C5: at-caller-location (weather and forecast), on a resolved record with
\* a non-empty city name, uses the city name as the weather query, also
\* when lat and lon are both present; the coordinates are never the query.
C5_CityNameIsTheQuery ==
    (op \in CallerOps /\ Resolved /\ loc.ok /\ Truthy(loc.city))
        => /\ query = <<loc.city>>
           /\ wxCalls > 0 => wxReq.q = <<loc.city>>

\* C5 witness: a record with city, lat and lon, queried by city name
C5_Witness ==
    /\ op \in CallerOps
    /\ loc.city = "London" /\ loc.lat = "51.5" /\ loc.lon = "-0.12"
    /\ pc = "wx_wait"
    /\ wxCalls = 1
    /\ wxReq.q = <<"London">>

\* C6: at-caller-location (weather and forecast), on a resolved record with
\* no city name but both lat and lon, fetches weather with the query
\* "lat,lon"; the "could not determine a valid location" message is
\* returned only when neither a name nor both coordinates are there.
C6_CoordinatesAreTheFallback ==
    (op \in CallerOps /\ Resolved /\ loc.ok /\ ~Truthy(loc.city)
        /\ loc.lat # Null /\ loc.lon # Null /\ envKey = ValidKey)
        => /\ wxCalls = 1
           /\ wxReq.q = CoordQuery(loc.lat, loc.lon)
           /\ result # <<NoValidLocationMsg>>
           /\ result # <<NoValidCityMsg>>

\* the day count a forecast report shows in its header: the fragment before
\* the "-Day Weather Forecast for" fragment
ShownCount(text) ==
    IF Contains(text, HeaderTok) THEN text[IndexOf(text, HeaderTok) - 1]
    ELSE text[IndexOf(text, "-Day Weather Forecast for Your Location:") - 1]

IsForecastReport(text) ==
    \/ Contains(text, HeaderTok)
    \/ Contains(text, "-Day Weather Forecast for Your Location:")

\* C7: in every forecast report the day count of the header is the number
\* of forecast days the provider returned, not the number the caller asked
\* for (at-caller-location(days=5) on a two-day response shows 2).
C7_HeaderShowsReturnedCount ==
    (pc = "done" /\ op \in ForecastOps /\ IsForecastReport(result))
        => ShownCount(result) = IntStr(Len(ForecastDays(gw.body)))

\* location resolution failed, as the tool decides it: no data, status
\* "fail", or (server.py) any status but "success"
ResolutionFailed ==
    /\ gw.target = "geo"
    /\ gw.kind = "ok" => gw.body.top \in {"dict", "null", "empty"}
    /\ \/ NoData(gw.ret)
       \/ Get0(gw.body.status) = "fail"
       \/ (impl = "server" /\ Get0(gw.body.status) # "success")

\* the resolver's outcome the claim calls a failure: transport absence,
\* status "fail" or an unknown status
ResolutionFailedAsClaimed ==
    /\ gw.target = "geo"
    /\ gw.kind = "ok" => gw.body.top \in {"dict", "null", "empty"}
    /\ \/ NoData(gw.ret)
       \/ Get0(gw.body.status) # "success"

\* the sentences with which the tools say that weather was not fetched
WeatherNotes ==
    {"Unable to fetch weather data. Please try again later.",
     "Latitude and longitude are required to fetch weather."}

HasWeatherNote(text) == \E i \in 1..Len(text) : text[i] \in WeatherNotes

\* the messages location-and-weather-by-IP returns for a failed resolution
LocationFailureTexts ==
    {<<UnableLocation>>} \cup
    {<<"Error: ", Get(b.message, "Unknown error occurred")>> : b \in GeoBodies}

\* C8 (as stated): location-and-weather-by-IP, when location resolution
\* fails (transport absence, status "fail" or unknown status), returns the
\* location failure message followed by an explicit note that weather
\* could not be fetched.
C8_FailureCarriesWeatherNote ==
    (op = "get_location_and_weather_by_ip" /\ pc = "done"
        /\ ResolutionFailedAsClaimed)
        => HasWeatherNote(result)

\* C8 (amended): location-and-weather-by-IP, when location resolution fails
\* (no data from the geolocation call, status "fail", or in server.py any
\* status but "success"), returns the location failure message alone, with
\* no note about weather, and makes no weather call.
C8_FailureMessageAlone ==
    (op = "get_location_and_weather_by_ip" /\ pc = "done"
        /\ ResolutionFailed)
        => /\ result \in LocationFailureTexts
           /\ ~HasWeatherNote(result)
           /\ wxCalls = 0

\* C8 witness: the provider answered status "fail" and only the location
\* failure message came back
C8_Witness ==
    /\ op = "get_location_and_weather_by_ip"
    /\ pc = "done"
    /\ gw.target = "geo" /\ gw.kind = "ok" /\ gw.body.status = "fail"
    /\ result = <<UnableLocation>>
    /\ wxCalls = 0

\* C9: for every tool and every upstream outcome (transport failure,
\* non-2xx, malformed body, well-formed JSON of any shape) the operation
\* returns a text; no exception leaves the tool.
C9_NoExceptionEscapes == pc # "raised"

\* C10: make_request returns the decoded JSON or None for every outcome of
\* the GET: a transport error, a non-2xx status and a JSON-decode failure
\* each give None, and nothing is raised to the caller.
C10_GatewayNeverRaises ==
    gw.via = "make_request"
        => /\ ~gw.ret.raised
           /\ gw.kind \in Failures => gw.ret = Absent
           /\ gw.kind = "ok" => gw.ret = Returned(gw.body)

\* C10 witness: a GET through make_request ended with a non-2xx status and
\* the tool went on with None
C10_Witness ==
    /\ gw.via = "make_request"
    /\ gw.kind = "http_error"
    /\ gw.ret = Absent
    /\ pc = "done"

\* the last completed GET is the geolocation one and gave a JSON object
GeoAnswered == gw.target = "geo" /\ gw.kind = "ok" /\ gw.body.top = "dict"

\* the text renders a location block
RendersLocation(text) ==
    Contains(text, "City: ") \/ Contains(text, "(city) City: ")

\* the fields of the resolver's record and the keys they are projected from
ProjectedFrom(l, b) ==
    /\ b.city # Missing => l.city = b.city
    /\ b.regionName # Missing => l.region = b.regionName
    /\ b.country # Missing => l.country = b.country
    /\ b.lat # Missing => l.lat = b.lat
    /\ b.lon # Missing => l.lon = b.lon

\* C11: the geolocation response is mapped by its status: "success" gives
\* the record projected from city, regionName, country, lat, lon, timezone;
\* "fail", any other status and a missing status give no record, and no
\* tool renders a location or fetches weather from such a response.
C11_StatusDecidesTheRecord ==
    GeoAnswered =>
        IF Get0(gw.body.status) = "success"
        THEN loc.ok /\ ProjectedFrom(loc, gw.body)
        ELSE ~loc.ok /\ ~RendersLocation(result) /\ wxCalls = 0

WxAnswered == gw.target = "wx" /\ gw.kind = "ok" /\ gw.body.top = "dict"

\* the tool ended, by a return or by an exception
Ended == pc \in {"done", "raised"}

\* the text renders current conditions or forecast days
IsWeatherReport(text) ==
    Contains(text, "Current Conditions: ") \/ Contains(text, "Weather: ")

\* C13: when the weather provider returns a JSON payload with a top-level
\* error key, every weather operation returns a text that carries the
\* provider's error message unchanged and renders no weather or forecast
\* report from that payload.
C13_ProviderErrorSurfaced ==
    (Ended /\ op \in WeatherOps /\ WxAnswered /\ gw.body.error # Missing)
        => /\ pc = "done"
           /\ gw.body.errmsg # Missing => Contains(result, gw.body.errmsg)
           /\ ~IsWeatherReport(result)

\* the fragment a location block shows after one of the labels
ValueAfter(text, labels) ==
    text[(CHOOSE i \in 1..Len(text) : text[i] \in labels) + 1]

\* the placeholders the templates hold for an absent field
UnknownPlaceholders ==
    {"Unknown", "Unknown city", "Unknown region", "Unknown country",
     "Unknown latitude", "Unknown longitude"}

\* C14: for every record given to a formatter and every field of it that
\* holds an absent value, the key missing or present with a null value as
\* in the resolver's projected record, the text shows the placeholder
\* "Unknown" at that field's position (or an empty qualifier for region).
C14_AbsentFieldsShowUnknown ==
    (pc = "done" /\ loc.ok /\ RendersLocation(result))
        => /\ loc.city = Null =>
                ValueAfter(result, {"City: ", "(city) City: "})
                    \in UnknownPlaceholders
           /\ loc.region = Null =>
                ValueAfter(result, {"Region: ", "(map) Region: "})
                    \in UnknownPlaceholders \cup {""}
           /\ loc.country = Null =>
                ValueAfter(result, {"Country: ", "(globe) Country: "})
                    \in UnknownPlaceholders
           /\ ~Contains(result, Null)

\* two separators of a location string with nothing between them
AdjacentSeparators(text) ==
    \E i \in 1..(Len(text) - 2) :
        text[i] = ", " /\ text[i + 1] = "" /\ text[i + 2] = ", "

\* the location string "{name}, {country}" of a record without region
NameThenCountry(text, b) ==
    \E i \in 1..(Len(text) - 2) :
        text[i + 1] = ", " /\ text[i + 2] = Get(LocationOf(b).country, "")

\* C15: every report that names a location formats it as
\* "{name}, {region}, {country}" when region is non-empty and as
\* "{name}, {country}" when region is empty or absent; an empty region
\* never gives two adjacent separators.
C15_LocationStringRule ==
    (pc = "done" /\ op \in WeatherOps /\ WxAnswered
        /\ IsWeatherReport(result))
        => /\ ~AdjacentSeparators(result)
           /\ ~Truthy(Get(LocationOf(gw.body).region, ""))
                => NameThenCountry(result, gw.body)

\* C16: the by-IP operation calls only the geolocation provider: across any
\* invocation of it the number of outbound calls to the weather provider is
\* zero.
C16_ByIpFetchesNoWeather ==
    op = "get_location_by_ip"
        => /\ wxCalls = 0
           /\ wxReq = NoReq
           /\ pc # "wx_wait"
           /\ geoCalls <= 1

\* C16 witness: by-IP resolved a location and returned its block after one
\* geolocation call
C16_Witness ==
    /\ op = "get_location_by_ip"
    /\ impl = "svc"
    /\ pc = "done"
    /\ loc.ok
    /\ geoCalls = 1
    /\ RendersLocation(result)
    /\ wxCalls = 0

\* C17: the by-city and by-coordinates operations (current and forecast)
\* pass the caller's literal query to the Weather Fetcher: the outbound
\* query is the city string or "lat,lon" unchanged, and no call goes to
\* the geolocation provider.
C17_LiteralQueryNoResolution ==
    op \in CityOps \cup CoordOps
        => /\ geoCalls = 0
           /\ geoReq = NoReq
           /\ pc # "geo_wait"
           /\ wxCalls > 0 =>
                wxReq.q = IF op \in CityOps THEN <<args.city>>
                          ELSE <<args.lat, ",", args.lon>>

\* C17 witness: a by-coordinates forecast sent "51.5,-0.12"
C17_Witness ==
    /\ op = "get_weather_forecast_by_coordinates"
    /\ pc = "wx_wait"
    /\ wxCalls = 1
    /\ wxReq.q = <<"51.5", ",", "-0.12">>
    /\ geoCalls = 0

\* the weather fetch of the running tool failed: the key test stopped it,
\* the GET gave no data, or the provider's payload has an error key
WeatherFetchFailed ==
    \/ wxCalls = 0
    \/ gw.target = "wx" /\ NoData(gw.ret)
    \/ WxAnswered /\ gw.body.error # Missing

WeatherFailureSentences ==
    {"Unable to fetch weather data. Please try again later.", "Error: "}

\* C18: in location-and-weather-by-IP, when location resolution succeeds
\* and the weather fetch fails (transport absence, provider error or
\* configuration error), the result is the rendered location block followed
\* by a weather failure sentence; the location block is never dropped and
\* the operation never fails as a whole.
C18_LocationBlockThenFailure ==
    (op = "get_location_and_weather_by_ip" /\ Ended /\ loc.ok
        /\ loc.lat # Null /\ loc.lon # Null /\ WeatherFetchFailed)
        => /\ pc = "done"
           /\ Len(result) > Len(format_location_info(args.ip_address, loc)) + 2
           /\ SubSeq(result, 1,
                     Len(format_location_info(args.ip_address, loc)))
                = format_location_info(args.ip_address, loc)
           /\ result[Len(format_location_info(args.ip_address, loc)) + 3]
                \in WeatherFailureSentences

\* how the running tool ends when its last GET ends by a timeout
OnTimeout ==
    CASE gw.target = "geo" ->
            AfterGeo(impl, op, args, Outcome("timeout", GeoBase))
      [] gw.target = "wx" ->
            Finish(AfterWx(impl, op, args, loc, query,
                           make_request(Outcome("timeout", WxNoBlocks))),
                   loc, query)
      [] gw.target = "search" ->
            Finish(reverse_geocode_coordinates(
                       SearchReturn(impl, Outcome("timeout", SearchBase)),
                       args.lat, args.lon), NoLoc, <<>>)

\* C20: for a given operation and input the text returned is the same
\* whether the upstream call failed by network error, timeout, non-2xx
\* status or malformed body: the kind of the failure does not show in the
\* result.
C20_FailureKindNotObservable ==
    gw.kind \in Failures
        => /\ pc = "done"
           /\ result = OnTimeout.text
           /\ result # <<>>

\* C20 witness: a malformed body on the weather GET of a by-city tool gave
\* the "unable to fetch" text
C20_Witness ==
    /\ impl = "server"
    /\ op = "get_weather_by_city"
    /\ gw.target = "wx"
    /\ gw.kind = "bad_json"
    /\ pc = "done"
    /\ result = <<"Unable to fetch weather data for ", "London",
                  ". Please check the city name and ensure you have a valid API key.">>

\* tool o of implementation i on arguments a, run alone from its call to
\* its end against the upstream outcomes g (geolocation) and w (weather)
RunAlone(i, o, a, g, w) ==
    LET s0 == Start(i, o, a)
        s1 == IF s0.next = "geo" THEN AfterGeo(i, o, a, g) ELSE s0
    IN  IF s1.next = "wx"
        THEN Finish(AfterWx(i, o, a, s1.loc, s1.query, make_request(w)),
                    s1.loc, s1.query)
        ELSE s1

\* C19 (under SpecConc): for any number of invocations in flight and any
\* interleaving of their suspension points, each invocation returns the
\* text it returns when run alone against the same upstream responses.
C19_InterleavingNotObservable ==
    \A t \in Tasks :
        pc[t] \in {"done", "raised"}
            => /\ result[t] =
                    RunAlone(impl[t], op[t], args[t], gw[t].geo,
                             gw[t].wx).text
               /\ pc[t] =
                    RunAlone(impl[t], op[t], args[t], gw[t].geo,
                             gw[t].wx).next

\* C19 witness: a forecast at the caller's location was invoked, suspended
\* twice and finished with its report while a by-city invocation with
\* another query was waiting for its weather GET
C19_Witness ==
    /\ pc[1] = "wx_wait"
    /\ op[1] = "get_weather_by_city"
    /\ query[1] = <<"London">>
    /\ pc[2] = "done"
    /\ op[2] = "get_forecast_at_current_location"
    /\ query[2] = <<"51.5", ",", "-0.12">>
    /\ Contains(result[2], "-Day Weather Forecast for Your Location:")

\* the operations that resolve a location and then fetch its weather
CompositeOps == CallerOps \cup {"get_location_and_weather_by_ip"}

\* the outbound calls of the running invocation that are in flight
InFlight ==
    (IF pc = "geo_wait" THEN {"geo"} ELSE {})
    \cup (IF pc \in {"wx_wait", "search_wait"} THEN {"wx"} ELSE {})

\* C21: in every composite operation the outbound call to the weather
\* provider starts only after the geolocation call of the same invocation
\* has completed, and at most one outbound call of an invocation is in
\* flight at any time.
C21_ResolutionBeforeFetch ==
    op \in CompositeOps
        => /\ Cardinality(InFlight) <= 1
           /\ wxCalls > 0 =>
                /\ geoCalls = 1
                /\ pc # "geo_wait"
                /\ gw.target \in {"geo", "wx"}
                /\ pc = "wx_wait" => gw.target = "geo" /\ gw.kind = "ok"

\* C21 witness: the geolocation call of a location-and-weather-by-IP
\* invocation has completed and its weather call is in flight
C21_Witness ==
    /\ op = "get_location_and_weather_by_ip"
    /\ pc = "wx_wait"
    /\ geoCalls = 1
    /\ gw.target = "geo" /\ gw.kind = "ok"
    /\ wxCalls = 1
    /\ wxReq.q = <<"51.5", ",", "-0.12">>

\* the last outbound call ended in a failure the tool tells from success:
\* transport absence, the geolocation provider's status "fail", or a
\* weather payload with an error key
CallFailed ==
    \/ gw.kind \in Failures
    \/ GeoAnswered /\ Get0(gw.body.status) = "fail"
    \/ WxAnswered /\ gw.body.error # Missing

\* the key test stopped the weather fetch of the running tool
ConfigErrorReturned == pc = "done" /\ IsConfigError(result)

\* C22: no outbound call is ever retried: within one invocation at most one
\* call goes to the geolocation provider and at most one to the weather
\* provider, and after a call ended in a configuration error, transport
\* absence or provider error the invocation makes no further outbound call.
C22_NoRetry ==
    /\ geoCalls <= 1
    /\ wxCalls <= 1
    /\ CallFailed => Ended /\ InFlight = {}
    /\ (CallFailed /\ gw.target = "geo") => wxCalls = 0
    /\ ConfigErrorReturned => wxCalls = 0 /\ InFlight = {}

\* C22 witness: the only geolocation call of an at-caller-location
\* invocation timed out and the tool returned without another call
C22_Witness ==
    /\ op = "get_weather_at_current_location"
    /\ gw.target = "geo"
    /\ gw.kind = "timeout"
    /\ pc = "done"
    /\ geoCalls = 1
    /\ wxCalls = 0

\* every outbound request the running invocation has issued
IssuedRequests ==
    (IF geoCalls > 0 THEN {geoReq} ELSE {})
    \cup (IF wxCalls > 0 THEN {wxReq} ELSE {})

\* the purposes with the shorter timeout: reverse geocoding, and the
\* lookup of the caller's own address (no IP in the URL)
ShortTimeoutPurpose(req) ==
    \/ req.endpoint = "search"
    \/ req.endpoint = "ip-api" /\ req.ip = Null

\* C23: every outbound call carries a fixed timeout chosen by its purpose:
\* reverse-geocoding calls and the bare self-IP lookup use 10 seconds, every
\* other weather or location call 30 seconds.
C23_TimeoutByPurpose ==
    \A req \in IssuedRequests :
        req.timeout = IF ShortTimeoutPurpose(req) THEN "10.0" ELSE "30.0"

\* C24: every outbound request of every operation carries a User-Agent
\* header with the fixed user-agent value (no tool supplies one of its own).
C24_UserAgentOnEveryRequest ==
    \A req \in IssuedRequests : req.ua = USER_AGENT

\* C25: a well-formed but empty weather payload (the JSON object {} or any
\* other falsy JSON value) is reported with the same "Unable to fetch"
\* message as a transport failure, never as a report made of placeholders.
C25_EmptyPayloadIsNoData ==
    (Ended /\ gw.target = "wx" /\ gw.kind = "ok"
        /\ gw.body.top \in {"null", "empty", "empty_list", "zero"})
        => /\ pc = "done"
           /\ result = OnTimeout.text
           /\ \E i \in 1..Len(result) :
                result[i] \in {"Unable to fetch weather data for ",
                               "Unable to fetch forecast data for ",
                               "Unable to fetch weather data. Please try again later.",
                               "Unable to fetch forecast data. Please try again later.",
                               "Unable to fetch weather data for your current location (",
                               "Unable to fetch forecast data for your current location ("}
           /\ ~IsWeatherReport(result)
           /\ ~IsForecastReport(result)

\* C25 witness: the weather provider answered {} and the by-city tool
\* returned its "Unable to fetch" text
C25_Witness ==
    /\ op = "get_weather_by_city"
    /\ impl = "svc"
    /\ gw.target = "wx" /\ gw.kind = "ok" /\ gw.body.top = "empty"
    /\ pc = "done"
    /\ result[1] = "Unable to fetch weather data for "

\* C26: by-IP and location-and-weather-by-IP called with an empty or absent
\* ip_address return the fixed "IP address is required" message and issue
\* no outbound call; they never resolve the caller's own address instead.
C26_IpAddressRequired ==
    (op \in IpOps /\ Running /\ args.ip_address \in {Null, ""})
        => /\ pc = "done"
           /\ geoCalls = 0
           /\ wxCalls = 0
           /\ geoReq = NoReq
           /\ result =
                IF op = "get_location_by_ip"
                THEN <<"IP address is required to fetch location.">>
                ELSE <<"IP address is required to fetch location and weather.">>

\* C26 witness: location-and-weather-by-IP called with "" returned the
\* message without a call
C26_Witness ==
    /\ op = "get_location_and_weather_by_ip"
    /\ args.ip_address = ""
    /\ pc = "done"
    /\ geoCalls = 0
    /\ result = <<"IP address is required to fetch location and weather.">>

\* the resolver returned to the tool, with no record (an exception of the
\* resolver leaves the tool at once and returns nothing to it)
ResolverReturnedAbsent == Resolved /\ pc # "raised" /\ ~loc.ok

\* C27: at-caller-location (weather and forecast), when the resolver
\* returns no record, returns the fixed "couldn't determine your current
\* location" message and makes no call to the weather provider.
C27_NoLocationNoWeather ==
    (op \in CallerOps /\ ResolverReturnedAbsent)
        => /\ pc = "done"
           /\ wxCalls = 0
           /\ wxReq = NoReq
           /\ result =
                IF op = "get_weather_at_current_location"
                THEN <<"(x) Sorry, I couldn't determine your current location to get the weather. You can ask for weather in a specific city instead!">>
                ELSE <<"(x) Sorry, I couldn't determine your current location to get the forecast. You can ask for forecast in a specific city instead!">>

\* C27 witness: the geolocation provider answered status "fail" to a
\* forecast at the caller's location
C27_Witness ==
    /\ op = "get_forecast_at_current_location"
    /\ gw.target = "geo" /\ gw.kind = "ok" /\ gw.body.status = "fail"
    /\ ~loc.ok
    /\ pc = "done"
    /\ wxCalls = 0
    /\ result = <<SorryText(op)>>

\* C28: location-and-weather-by-IP, when the resolver succeeds with a record
\* whose lat or lon is null, makes no call to the weather provider and
\* returns the location block followed by "Latitude and longitude are
\* required to fetch weather."; a coordinate equal to 0 is present and is
\* fetched.
C28_NullCoordinateNoFetch ==
    (op = "get_location_and_weather_by_ip" /\ Resolved /\ loc.ok)
        => /\ (loc.lat = Null \/ loc.lon = Null) =>
                /\ pc = "done"
                /\ wxCalls = 0
                /\ result =
                     format_location_info(args.ip_address, loc)
                     \o <<NL, NL,
                          "Latitude and longitude are required to fetch weather.">>
           /\ (loc.lat = "0" /\ loc.lon # Null /\ Truthy(KeyOf(impl, op))) =>
                /\ wxCalls = 1
                /\ wxReq.q = <<"0", ",", loc.lon>>

\* C28 witness: the record holds lat 0 and the weather of "0,-0.12" is
\* being fetched
C28_Witness ==
    /\ op = "get_location_and_weather_by_ip"
    /\ loc.ok /\ loc.lat = "0" /\ loc.lon = "-0.12"
    /\ pc = "wx_wait"
    /\ wxCalls = 1
    /\ wxReq.q = <<"0", ",", "-0.12">>

\* C29: a forecast payload without an error key whose forecastday list is
\* missing or empty yields the "No forecast data available" message in
\* every forecast operation; no forecast report with a header and zero day
\* blocks is ever returned.
C29_NoDaysNoReport ==
    (Ended /\ op \in ForecastOps /\ WxAnswered /\ gw.body.error = Missing
        /\ Len(ForecastDays(gw.body)) = 0)
        => /\ pc = "done"
           /\ result[1] \in {"No forecast data available for ",
                             "No forecast data available for the specified location.",
                             "No forecast data available for your current location."}
           /\ ~IsForecastReport(result)

\* C30 (under SpecLive): every invocation eventually returns a text result,
\* provided each outbound call it issues eventually responds or times out.
C30_EventuallyReturnsText == (InFlight # {}) ~> (pc = "done")

\* an invocation that waits for an outbound call eventually ends, by a text
\* or by an exception
C30_EventuallyEnds == (InFlight # {}) ~> Ended

====
